---- MODULE Spec2Model ----
(***************************************************************************)
(* A model of json_directory_tokenizer.py: the text normalizer             *)
(* (strip_html, strip_punct, the default prepreprocessor), the object      *)
(* tokenizer json_tokenize, the directory walker json_directory and the    *)
(* three aggregators tokenize_directory, token_counts and field_counts.    *)
(*                                                                         *)
(* Strings are sequences of one-character strings, so that the character   *)
(* level functions are computed and not assumed.                           *)
(*                                                                         *)
(* Three specifications share the variables:                               *)
(*   TextSpec  applies the normalizer steps to a bounded string;           *)
(*   TokSpec   runs the json_tokenize generator on a bounded object;       *)
(*   Spec      runs json_directory and the aggregators over a bounded tree.*)
(***************************************************************************)
EXTENDS Integers, Sequences, FiniteSets, TLC

VARIABLES
    s,              \* TextSpec: the input string
    txt,            \* TextSpec: the current string
    prev,           \* TextSpec: the string before the last step
    stage,          \* TextSpec: which steps have been applied
    obj,            \* TokSpec: the dict given to json_tokenize
    config_fields,  \* JsonTokenizerConfig.fields: None or a list of fields
    tk_pc,          \* TokSpec: position of the json_tokenize generator
    tk_fields,      \* TokSpec: local `fields`
    tk_tokenized,   \* TokSpec: local `tokenized`
    tk_i,           \* TokSpec: index of the current pair of z
    tk_j,           \* TokSpec: index of the next token of the pair
    tk_out,         \* TokSpec: the tokens yielded so far
    tree,           \* Spec: the files of the directory, in os.walk order
    op,             \* Spec: the function the caller runs
    classification, \* Spec: the label given to tokenize_directory
    pos,            \* Spec: number of files json_directory has moved to
    gen,            \* Spec: position of the json_directory generator
    handles,        \* Spec: the files whose handle is open
    outcomes,       \* Spec: what json_directory yielded to its consumer
    triples,        \* Spec: what tokenize_directory yielded
    c,              \* Spec: the Counter of token_counts / field_counts
    exc,            \* Spec: the exception that reached the caller
    caller          \* Spec: "running", "returned", "raised" or "stopped"

textVars == <<s, txt, prev, stage>>
tokVars  == <<obj, tk_pc, tk_fields, tk_tokenized, tk_i, tk_j, tk_out>>
walkVars == <<tree, op, classification, pos, gen, handles, outcomes, triples, c, exc, caller>>
vars     == <<textVars, tokVars, config_fields, walkVars>>

\* JsonTokenizerConfig.fields: None, or a list of field names
None == [given |-> FALSE, list |-> <<>>]
FieldList(l) == [given |-> TRUE, list |-> l]

(***************************************************************************)
(* Bounds.                                                                 *)
(***************************************************************************)
MaxLen   == 5   \* longest input string of TextSpec
MaxKeys  == 2   \* most keys of an object of TokSpec
MaxFiles == 3   \* most files of a tree of Spec

(***************************************************************************)
(* Characters.                                                             *)
(***************************************************************************)
UpperLetters == <<"A","B","C","D","E","F","G","H","I","J","K","L","M",
                  "N","O","P","Q","R","S","T","U","V","W","X","Y","Z">>
LowerLetters == <<"a","b","c","d","e","f","g","h","i","j","k","l","m",
                  "n","o","p","q","r","s","t","u","v","w","x","y","z">>
Digits       == {"0","1","2","3","4","5","6","7","8","9"}
Whitespace   == {" ", "\t", "\n"}

Range(f) == {f[x] : x \in DOMAIN f}

IsLetter(ch) == ch \in Range(UpperLetters) \cup Range(LowerLetters)
IsAlnum(ch)  == IsLetter(ch) \/ ch \in Digits

\* regex \w: alphanumeric or underscore
IsWordChar(ch) == IsAlnum(ch) \/ ch = "_"

\* The claimed character class: underscore is not punctuation.
MatchesPunctClass_keeps_underscore(ch) == ~IsWordChar(ch)

\* regex [\W_]: a non-word character, or the underscore
MatchesPunctClass(ch) == ~IsWordChar(ch) \/ ch = "_"

(***************************************************************************)
(* str.lower()                                                             *)
(***************************************************************************)
LowerChar(ch) ==
    IF ch \in Range(UpperLetters)
    THEN LowerLetters[CHOOSE k \in DOMAIN UpperLetters : UpperLetters[k] = ch]
    ELSE ch

lower(str) == [k \in DOMAIN str |-> LowerChar(str[k])]

(***************************************************************************)
(* strip_html: ''.join(BeautifulSoup(s, 'lxml').findAll(text=True)).       *)
(* The library is modelled on markup made of "<", ">" and "/": a "<"       *)
(* followed by a letter or "/" opens a tag that runs through the next ">"  *)
(* (through the end of the string when it is never closed); the text       *)
(* outside the tags is kept and concatenated with no separator. Any other  *)
(* "<" or ">" is text.                                                     *)
(***************************************************************************)
RECURSIVE SkipTag(_)
SkipTag(str) ==
    IF str = <<>> THEN <<>>
    ELSE IF Head(str) = ">" THEN Tail(str)
    ELSE SkipTag(Tail(str))

RECURSIVE strip_html(_)
strip_html(str) ==
    IF str = <<>> THEN <<>>
    ELSE IF /\ Head(str) = "<"
            /\ Len(str) > 1
            /\ (IsLetter(str[2]) \/ str[2] = "/")
         THEN strip_html(SkipTag(Tail(str)))
         ELSE <<Head(str)>> \o strip_html(Tail(str))

(***************************************************************************)
(* strip_punct: re.compile('[\W_]+').sub(' ', s).strip()                   *)
(***************************************************************************)
\* pattern.sub with the quantifier {1,2} in place of +
RECURSIVE PatternSub_pairs(_, _)
PatternSub_pairs(str, run) ==
    IF str = <<>> THEN <<>>
    ELSE IF MatchesPunctClass(Head(str))
         THEN (IF run = 1 THEN <<>> ELSE <<" ">>)
              \o PatternSub_pairs(Tail(str), IF run = 1 THEN 0 ELSE 1)
         ELSE <<Head(str)>> \o PatternSub_pairs(Tail(str), 0)

\* pattern.sub(' ', s), scanning left to right; run > 0 inside a match
RECURSIVE PatternSub(_, _)
PatternSub(str, run) ==
    IF str = <<>> THEN <<>>
    ELSE IF MatchesPunctClass(Head(str))
         THEN (IF run > 0 THEN <<>> ELSE <<" ">>)
              \o PatternSub(Tail(str), 1)
         ELSE <<Head(str)>> \o PatternSub(Tail(str), 0)

\* str.strip(): drop leading and trailing whitespace
RECURSIVE lstrip(_)
lstrip(str) ==
    IF str # <<>> /\ Head(str) \in Whitespace THEN lstrip(Tail(str)) ELSE str

RECURSIVE rstrip(_)
rstrip(str) ==
    IF str # <<>> /\ str[Len(str)] \in Whitespace
    THEN rstrip(SubSeq(str, 1, Len(str) - 1))
    ELSE str

strip(str) == rstrip(lstrip(str))

strip_punct(str) == strip(PatternSub(str, 0))

(***************************************************************************)
(* JsonTokenizerConfig defaults                                            *)
(***************************************************************************)
\* prepreprocessor = lambda s: strip_punct(strip_html(s.lower()))
prepreprocessor(str) == strip_punct(strip_html(lower(str)))

\* tokenizer = lambda s: s.split(' ')
RECURSIVE SplitFrom(_, _)
SplitFrom(str, cur) ==
    IF str = <<>> THEN <<cur>>
    ELSE IF Head(str) = " " THEN <<cur>> \o SplitFrom(Tail(str), <<>>)
    ELSE SplitFrom(Tail(str), Append(cur, Head(str)))

tokenizer(str) == SplitFrom(str, <<>>)

(***************************************************************************)
(* TextSpec: the normalizer steps on a bounded string.                     *)
(***************************************************************************)
TextChars == {"a", "B", "1", "_", " ", "<", ">"}

RECURSIVE StringsUpTo(_, _)
StringsUpTo(chars, n) ==
    IF n = 0 THEN {<<>>}
    ELSE LET shorter == StringsUpTo(chars, n - 1)
         IN  shorter \cup {Append(w, ch) : w \in shorter, ch \in chars}

WalkIdle ==
    /\ tree = <<>> /\ op = "none" /\ classification = "none" /\ pos = 0 /\ gen = "none"
    /\ handles = {} /\ outcomes = <<>> /\ triples = <<>> /\ c = <<>>
    /\ exc = "none" /\ caller = "none"

TokIdle ==
    /\ obj = <<>> /\ tk_pc = "none" /\ tk_fields = <<>>
    /\ tk_tokenized = <<>> /\ tk_i = 0 /\ tk_j = 0 /\ tk_out = <<>>

TextIdle == s = <<>> /\ txt = <<>> /\ prev = <<>> /\ stage = "none"

TextInit ==
    /\ s \in StringsUpTo(TextChars, MaxLen)
    /\ txt = s
    /\ prev = s
    /\ stage = "input"
    /\ config_fields = None
    /\ TokIdle
    /\ WalkIdle

TextStep(from, to, result) ==
    /\ stage = from
    /\ prev' = txt
    /\ txt' = result
    /\ stage' = to
    /\ UNCHANGED <<s, tokVars, config_fields, walkVars>>

\* strip_punct applied to the input, then to its own result
TextStripPunct      == TextStep("input", "punct", strip_punct(txt))
TextStripPunctAgain == TextStep("punct", "punct2", strip_punct(txt))

\* the default prepreprocessor, one call after the other
TextLower      == TextStep("input", "lowered", lower(txt))
TextStripHtml  == TextStep("lowered", "text", strip_html(txt))
TextNormalized == TextStep("text", "normalized", strip_punct(txt))
TextNormalizeAgain ==
    TextStep("normalized", "normalized2", prepreprocessor(txt))

TextNext ==
    \/ TextStripPunct
    \/ TextStripPunctAgain
    \/ TextLower
    \/ TextStripHtml
    \/ TextNormalized
    \/ TextNormalizeAgain

TextSpec == TextInit /\ [][TextNext]_vars

(***************************************************************************)
(* The words of a string: its maximal runs of characters of `kept`,        *)
(* joined by single spaces.                                                *)
(***************************************************************************)
AlnumChars == Range(UpperLetters) \cup Range(LowerLetters) \cup Digits

RunStarts(str, kept) ==
    {i \in DOMAIN str : str[i] \in kept /\ (i = 1 \/ str[i - 1] \notin kept)}

RunEnd(str, i, kept) ==
    CHOOSE j \in i..Len(str) :
        /\ \A k \in i..j : str[k] \in kept
        /\ (j = Len(str) \/ str[j + 1] \notin kept)

RECURSIVE JoinRuns(_, _, _)
JoinRuns(str, starts, kept) ==
    IF starts = {} THEN <<>>
    ELSE LET i    == CHOOSE m \in starts : \A n \in starts : m <= n
             word == SubSeq(str, i, RunEnd(str, i, kept))
             rest == starts \ {i}
         IN  IF rest = {} THEN word
             ELSE word \o <<" ">> \o JoinRuns(str, rest, kept)

WordsJoined(str, kept) == JoinRuns(str, RunStarts(str, kept), kept)

\* C7 as claimed: strip_punct replaces every maximal run of characters that
\* are neither alphanumeric nor underscore by one space and trims the result,
\* so that alphanumerics and underscores stay in place.
C7_UnderscoreKept ==
    stage = "punct" => txt = WordsJoined(s, AlnumChars \cup {"_"})

\* C7 as amended: strip_punct replaces every maximal run of non-alphanumeric
\* characters, the underscore included, by one space and trims the result;
\* only the alphanumerics stay in place, in order.
C7_StripPunctJoinsAlnumRuns ==
    stage = "punct" => txt = WordsJoined(s, AlnumChars)

C7_Witness ==
    /\ stage = "punct"
    /\ s = <<"a", "_", " ", "B", "<">>
    /\ txt = <<"a", " ", "B">>

\* C8: normalizing is idempotent: strip_punct applied to its own result, and
\* the default prepreprocessor applied to its own result, return the string
\* they were given.
C8_NormalizingIsIdempotent ==
    /\ stage = "punct2" => txt = prev
    /\ stage = "normalized2" => txt = prev

C8_Witness ==
    /\ stage = "punct2"
    /\ s = <<"_", "a", " ", "_", "B">>
    /\ prev = <<"a", " ", "B">>
    /\ txt = prev

(***************************************************************************)
(* JSON values and dicts. A dict is the sequence of its <<key, value>>     *)
(* pairs in key order, the keys distinct; a value is a string, a number,   *)
(* a boolean or null.                                                      *)
(***************************************************************************)
JStr(chars) == [t |-> "str", v |-> chars]
JNum(n)     == [t |-> "num", v |-> n]
JBool(b)    == [t |-> "bool", v |-> b]
JNull       == [t |-> "null", v |-> 0]

DigitChar(d) == CHOOSE ch \in Digits :
    ch = <<"0","1","2","3","4","5","6","7","8","9">>[d + 1]

RECURSIVE NatStr(_)
NatStr(n) ==
    IF n < 10 THEN <<DigitChar(n)>>
    ELSE Append(NatStr(n \div 10), DigitChar(n % 10))

\* str(value)
str(val) ==
    CASE val.t = "str"  -> val.v
      [] val.t = "num"  -> NatStr(val.v)
      [] val.t = "bool" -> IF val.v THEN <<"T","r","u","e">>
                                    ELSE <<"F","a","l","s","e">>
      [] val.t = "null" -> <<"N","o","n","e">>

\* obj.keys()
keys(o) == [k \in DOMAIN o |-> o[k][1]]

HasKey(o, key) == \E k \in DOMAIN o : o[k][1] = key

ValueOf(o, key) == o[CHOOSE k \in DOMAIN o : o[k][1] = key][2]

\* str(obj.get(field)): a missing field reads as None
StrGet_none(o, field) ==
    IF HasKey(o, field) THEN str(ValueOf(o, field)) ELSE str(JNull)

\* str(obj.get(field, ''))
StrGet(o, field) ==
    IF HasKey(o, field) THEN str(ValueOf(o, field)) ELSE <<>>

(***************************************************************************)
(* json_tokenize                                                           *)
(***************************************************************************)
\* lines 62-65
FieldsOf(o, cf) == IF cf = None THEN keys(o) ELSE cf.list

\* sents = [str(obj.get(field, '')) for field in fields]
Sents(o, fields) == [k \in DOMAIN fields |-> StrGet(o, fields[k])]

\* tokenized = [tokenizer(prepreprocessor(sent)) for sent in sents]
Tokenized(sents) == [k \in DOMAIN sents |-> tokenizer(prepreprocessor(sents[k]))]

Min(a, b) == IF a <= b THEN a ELSE b

\* z = zip(fields, tokenized)
zip(xs, ys) == [k \in 1..Min(Len(xs), Len(ys)) |-> <<xs[k], ys[k]>>]

\* "%s%s" % (field, token)
Format_no_colon(field, token) == field \o token

\* "%s:%s" % (field, token)
Format(field, token) == field \o <<":">> \o token

\* The position of the next yield of the nested loops at or after token j
\* of pair i; <<0, 0>> when the loops run out.
RECURSIVE NextYield(_, _, _)
NextYield(z, i, j) ==
    IF i > Len(z) THEN <<0, 0>>
    ELSE IF j <= Len(z[i][2]) THEN <<i, j>>
    ELSE NextYield(z, i + 1, 1)

\* list(json_tokenize(obj, config)): the generator run to its end
RECURSIVE Drain(_, _, _)
Drain(z, i, j) ==
    LET at == NextYield(z, i, j)
    IN  IF at = <<0, 0>> THEN <<>>
        ELSE <<Format(z[at[1]][1], z[at[1]][2][at[2]])>>
             \o Drain(z, at[1], at[2] + 1)

json_tokenize(o, cf) ==
    LET fields == FieldsOf(o, cf)
    IN  Drain(zip(fields, Tokenized(Sents(o, fields))), 1, 1)

(***************************************************************************)
(* TokSpec: the json_tokenize generator, one next() per step.              *)
(***************************************************************************)
IDENTIFIER == <<"i","d","e","n","t","i","f","i","e","r">>
TITLE      == <<"t","i","t","l","e">>
BODY       == <<"b","o","d","y">>

TokKeys   == {IDENTIFIER, TITLE, BODY}
TokValues == {JStr(<<"C","a","t"," ","D","o","g">>),
              JStr(<<"<","b",">","C","a","t","_","c","a","t">>),
              JStr(<<>>), JNum(12), JNull}

RECURSIVE DictsUpTo(_, _, _)
DictsUpTo(ks, vals, n) ==
    IF n = 0 THEN {<<>>}
    ELSE LET smaller == DictsUpTo(ks, vals, n - 1)
         IN  smaller \cup
             {Append(o, <<key, val>>) :
                 o \in {d \in smaller : Len(d) = n - 1}, key \in ks, val \in vals}

DistinctKeys(o) == \A a, b \in DOMAIN o : o[a][1] = o[b][1] => a = b

TokObjects == {o \in DictsUpTo(TokKeys, TokValues, MaxKeys) : DistinctKeys(o)}
TokConfigs == {None, FieldList(<<TITLE>>), FieldList(<<BODY, TITLE>>),
               FieldList(<<TITLE, TITLE>>)}

TokInit ==
    /\ obj \in TokObjects
    /\ config_fields \in TokConfigs
    /\ tk_pc = "created"
    /\ tk_fields = <<>>
    /\ tk_tokenized = <<>>
    /\ tk_i = 0
    /\ tk_j = 0
    /\ tk_out = <<>>
    /\ TextIdle
    /\ WalkIdle

\* The locals once the body has started: lines 62-69 run on the first next().
TokFieldsNow == IF tk_pc = "created" THEN FieldsOf(obj, config_fields) ELSE tk_fields
TokTokenizedNow ==
    IF tk_pc = "created" THEN Tokenized(Sents(obj, TokFieldsNow)) ELSE tk_tokenized
TokResumeAt ==
    LET z == zip(TokFieldsNow, TokTokenizedNow)
    IN  IF tk_pc = "created" THEN NextYield(z, 1, 1)
        ELSE NextYield(z, tk_i, tk_j + 1)

\* next() that runs to the yield of line 73
TokNextYield ==
    /\ tk_pc \in {"created", "suspended"}
    /\ TokResumeAt # <<0, 0>>
    /\ tk_fields' = TokFieldsNow
    /\ tk_tokenized' = TokTokenizedNow
    /\ tk_i' = TokResumeAt[1]
    /\ tk_j' = TokResumeAt[2]
    /\ tk_out' = Append(tk_out,
           Format(TokFieldsNow[TokResumeAt[1]],
                  TokTokenizedNow[TokResumeAt[1]][TokResumeAt[2]]))
    /\ tk_pc' = "suspended"
    /\ UNCHANGED <<obj, config_fields, textVars, walkVars>>

\* next() that runs off the end of the loops: StopIteration
TokNextStop ==
    /\ tk_pc \in {"created", "suspended"}
    /\ TokResumeAt = <<0, 0>>
    /\ tk_fields' = TokFieldsNow
    /\ tk_tokenized' = TokTokenizedNow
    /\ tk_pc' = "exhausted"
    /\ UNCHANGED <<obj, config_fields, tk_i, tk_j, tk_out, textVars, walkVars>>

TokNext == TokNextYield \/ TokNextStop

TokSpec == TokInit /\ [][TokNext]_vars

(***************************************************************************)
(* What json_tokenize is to yield: field by field, in order, one token     *)
(* `field:word` for each word of the split normalized string of the value. *)
(***************************************************************************)
WordsOfField(o, field) ==
    LET text == IF HasKey(o, field) THEN str(ValueOf(o, field)) ELSE <<>>
    IN  tokenizer(strip_punct(strip_html(lower(text))))

RECURSIVE TokensByField(_, _)
TokensByField(o, fields) ==
    IF fields = <<>> THEN <<>>
    ELSE LET f == Head(fields)
             w == WordsOfField(o, f)
         IN  [k \in DOMAIN w |-> f \o <<":">> \o w[k]] \o TokensByField(o, Tail(fields))

FieldSetUsed(o, cf) ==
    IF cf = None THEN {o[k][1] : k \in DOMAIN o} ELSE Range(cf.list)

IsPrefix(p, q) == Len(p) <= Len(q) /\ SubSeq(q, 1, Len(p)) = p

\* C6: json_tokenize yields the tokens field:word, the fields in order
\* (the configured fields, else the keys of the object in key order), the
\* words of a field in split order; every token begins with a field of the
\* field set used; a requested field the object lacks yields no token with a
\* non-empty word.
C6_TokensFieldByField ==
    LET want == TokensByField(obj, IF config_fields = None THEN keys(obj)
                                   ELSE config_fields.list)
    IN  /\ tk_pc \in {"suspended", "exhausted"} => IsPrefix(tk_out, want)
        /\ tk_pc = "exhausted" => tk_out = want
        /\ \A k \in DOMAIN tk_out :
               \E f \in FieldSetUsed(obj, config_fields) :
                   IsPrefix(f \o <<":">>, tk_out[k])
        /\ tk_pc = "exhausted" /\ config_fields # None =>
               \A f \in Range(config_fields.list) :
                   ~HasKey(obj, f) =>
                       /\ f \o <<":">> \in Range(tk_out)
                       /\ \A k \in DOMAIN tk_out :
                              IsPrefix(f \o <<":">>, tk_out[k])
                                  => tk_out[k] = f \o <<":">>

C6_Witness ==
    /\ tk_pc = "exhausted"
    /\ config_fields = FieldList(<<BODY, TITLE>>)
    /\ obj = <<<<TITLE, JStr(<<"C","a","t"," ","D","o","g">>)>>,
               <<IDENTIFIER, JNum(12)>>>>
    /\ tk_out = <<BODY \o <<":">>,
                  TITLE \o <<":", "c", "a", "t">>,
                  TITLE \o <<":", "d", "o", "g">>>>

(***************************************************************************)
(* Spec: json_directory and the aggregators over a directory tree.         *)
(*                                                                         *)
(* A file is a JSON object, a text json.load rejects ("malformed"), a JSON *)
(* text whose top-level value is not an object ("nondict"), or a file      *)
(* open() fails on ("unopenable"). tree lists the files in os.walk order.  *)
(***************************************************************************)
ObjectFile(o) == [kind |-> "object", obj |-> o]
Malformed     == [kind |-> "malformed", obj |-> <<>>]
NonDict       == [kind |-> "nondict", obj |-> <<>>]
Unopenable    == [kind |-> "unopenable", obj |-> <<>>]

\* Python values bound to `obj` by the consumers: None or a dict
PyNone    == [isNone |-> TRUE, dict |-> <<>>]
PyDict(o) == [isNone |-> FALSE, dict |-> o]

\* `if obj:` None and the empty dict are false
Truthy(x) == ~x.isNone /\ x.dict # <<>>

\* obj.get('identifier', '')
Identifier(o) ==
    IF HasKey(o, IDENTIFIER) THEN ValueOf(o, IDENTIFIER) ELSE JStr(<<>>)

\* yield obj, obj.get('identifier', ''), None
Success(p, o) ==
    [file |-> p, obj |-> PyDict(o), identifier |-> Identifier(o), r |-> "None"]

\* yield None, None, ValueError()
Failure(p) ==
    [file |-> p, obj |-> PyNone, identifier |-> JNull, r |-> "ValueError"]

\* The state of one json_directory generator.
Walker ==
    [pos |-> pos, gen |-> gen, handles |-> handles, outcomes |-> outcomes,
     exc |-> exc]

SetWalker(w) ==
    /\ pos' = w.pos
    /\ gen' = w.gen
    /\ handles' = w.handles
    /\ outcomes' = w.outcomes
    /\ exc' = w.exc

Resumable(g) == g \in {"created", "yield_89", "yield_91"}

\* next() on json_directory: the generator leaves the with block of the file
\* it yielded for, moves to the next file, opens it (outside the try), and
\* runs json.load and obj.get inside the try up to one of the two yields.
JdResume(w) ==
    LET p      == w.pos + 1
        closed == w.handles \ {w.pos}
    IN  IF p > Len(tree)
        THEN [w EXCEPT !.gen = "finished", !.handles = closed]
        ELSE IF tree[p].kind = "unopenable"
        THEN [w EXCEPT !.pos = p, !.gen = "raised", !.handles = closed,
                       !.exc = "OSError"]
        ELSE IF tree[p].kind = "object"
        THEN [w EXCEPT !.pos = p, !.gen = "yield_89",
                       !.handles = closed \cup {p},
                       !.outcomes = Append(@, Success(p, tree[p].obj))]
        ELSE [w EXCEPT !.pos = p, !.gen = "yield_91",
                       !.handles = closed \cup {p},
                       !.outcomes = Append(@, Failure(p))]

\* close() on json_directory: GeneratorExit is raised at the yield the
\* generator is suspended at. At line 89 the bare except catches it and the
\* generator yields again: close() raises RuntimeError and the generator
\* stays suspended inside the with block. At line 91 it leaves the with block.
JdCloseGen(w) ==
    IF w.gen = "yield_89"
    THEN [w EXCEPT !.gen = "yield_91", !.exc = "RuntimeError"]
    ELSE IF w.gen = "yield_91"
    THEN [w EXCEPT !.gen = "finished", !.handles = w.handles \ {w.pos}]
    ELSE IF w.gen = "created"
    THEN [w EXCEPT !.gen = "finished"]
    ELSE w

CallerAfter(w) ==
    IF w.gen = "finished" THEN "returned"
    ELSE IF w.gen = "raised" THEN "raised"
    ELSE "running"

LastObj(w) == w.outcomes[Len(w.outcomes)].obj

(***************************************************************************)
(* Counter                                                                 *)
(***************************************************************************)
\* c[key] += 1
Inc(cnt, key) ==
    IF key \in DOMAIN cnt THEN [cnt EXCEPT ![key] = @ + 1] ELSE cnt @@ (key :> 1)

RECURSIVE IncAll(_, _)
IncAll(cnt, ks) ==
    IF ks = <<>> THEN cnt ELSE IncAll(Inc(cnt, Head(ks)), Tail(ks))

\* for k in obj.keys(), filtered by the configured fields
CountedKeys_allowlist(o, cf) ==
    IF cf = None THEN keys(o)
    ELSE SelectSeq(keys(o), LAMBDA k : k \in Range(cf.list))

\* for k in obj.keys()
CountedKeys(o, cf) == keys(o)

(***************************************************************************)
(* The files and the calls.                                                *)
(***************************************************************************)
FileEmpty   == ObjectFile(<<>>)
FileCatDog  == ObjectFile(<<<<IDENTIFIER, JStr(<<"a">>)>>,
                            <<TITLE, JStr(<<"C","a","t"," ","D","o","g">>)>>>>)
FileCatCat  == ObjectFile(<<<<IDENTIFIER, JStr(<<"b">>)>>,
                            <<TITLE, JStr(<<"C","a","t"," ","C","a","t">>)>>>>)
FileBody    == ObjectFile(<<<<IDENTIFIER, JStr(<<"a">>)>>, <<BODY, JNull>>>>)
\* {"": "Cat", "a:b": "Dog"}
FileOddKeys == ObjectFile(<<<<<<>>, JStr(<<"C","a","t">>)>>,
                            <<<<"a",":","b">>, JStr(<<"D","o","g">>)>>>>)

FileContents ==
    {FileEmpty, FileCatDog, FileCatCat, FileBody, FileOddKeys,
     Malformed, NonDict, Unopenable}

RECURSIVE TreesUpTo(_)
TreesUpTo(n) ==
    IF n = 0 THEN {<<>>}
    ELSE LET smaller == TreesUpTo(n - 1)
         IN  smaller \cup {Append(tr, f) : tr \in smaller, f \in FileContents}

WalkConfigs == {None, FieldList(<<TITLE>>)}

Calls ==
    {<<"json_directory", None, "none">>}
    \cup {<<"field_counts", cf, "none">> : cf \in WalkConfigs}
    \cup {<<"token_counts", cf, "none">> : cf \in WalkConfigs}
    \cup {<<"tokenize_directory", cf, cl>> :
              cf \in WalkConfigs, cl \in {"loggedin", "loggedout"}}

Init ==
    /\ tree \in TreesUpTo(MaxFiles)
    /\ \E call \in Calls :
           /\ op = call[1]
           /\ config_fields = call[2]
           /\ classification = call[3]
    /\ pos = 0
    /\ gen = "created"
    /\ handles = {}
    /\ outcomes = <<>>
    /\ triples = <<>>
    /\ c = <<>>
    /\ exc = "none"
    /\ caller = "running"
    /\ TextIdle
    /\ TokIdle

fixedVars == <<tree, op, classification, config_fields, textVars, tokVars>>

\* The caller of json_directory asks for the next outcome.
JdNext ==
    /\ op = "json_directory"
    /\ caller = "running"
    /\ Resumable(gen)
    /\ SetWalker(JdResume(Walker))
    /\ caller' = CallerAfter(JdResume(Walker))
    /\ UNCHANGED <<triples, c, fixedVars>>

\* The caller of json_directory stops iterating and closes the generator.
JdClose ==
    /\ op = "json_directory"
    /\ caller = "running"
    /\ SetWalker(JdCloseGen(Walker))
    /\ caller' = "stopped"
    /\ UNCHANGED <<triples, c, fixedVars>>

\* tokenize_directory resumed: it pulls outcomes from json_directory until
\* one passes `if obj`, json_directory finishes, or json_directory raises.
RECURSIVE TdRun(_)
TdRun(w) ==
    LET w2 == JdResume(w)
    IN  IF ~Resumable(w2.gen) THEN w2
        ELSE IF Truthy(LastObj(w2)) THEN w2
        ELSE TdRun(w2)

TdNext ==
    /\ op = "tokenize_directory"
    /\ caller = "running"
    /\ Resumable(gen)
    /\ LET w == TdRun(Walker)
       IN  /\ SetWalker(w)
           /\ caller' = CallerAfter(w)
           /\ triples' =
                  IF Resumable(w.gen)
                  THEN LET o == w.outcomes[Len(w.outcomes)]
                       IN  Append(triples,
                                  <<classification, o.identifier,
                                    json_tokenize(o.obj.dict, config_fields)>>)
                  ELSE triples
    /\ UNCHANGED <<c, fixedVars>>

\* One iteration of the loop of token_counts; it returns c when
\* json_directory finishes.
TcStep ==
    /\ op = "token_counts"
    /\ caller = "running"
    /\ Resumable(gen)
    /\ LET w == JdResume(Walker)
       IN  /\ SetWalker(w)
           /\ caller' = CallerAfter(w)
           /\ c' = IF Resumable(w.gen) /\ Truthy(LastObj(w))
                   THEN IncAll(c, json_tokenize(LastObj(w).dict, config_fields))
                   ELSE c
    /\ UNCHANGED <<triples, fixedVars>>

\* One iteration of the loop of field_counts; it returns c when
\* json_directory finishes.
FcStep ==
    /\ op = "field_counts"
    /\ caller = "running"
    /\ Resumable(gen)
    /\ LET w == JdResume(Walker)
       IN  /\ SetWalker(w)
           /\ caller' = CallerAfter(w)
           /\ c' = IF Resumable(w.gen) /\ Truthy(LastObj(w))
                   THEN IncAll(c, CountedKeys(LastObj(w).dict, config_fields))
                   ELSE c
    /\ UNCHANGED <<triples, fixedVars>>

Next ==
    \/ JdNext
    \/ JdClose
    \/ TdNext
    \/ TcStep
    \/ FcStep

Spec == Init /\ [][Next]_vars

(***************************************************************************)
(* Properties of the walk and the aggregators.                             *)
(***************************************************************************)
SuccessfulOutcomes == SelectSeq(outcomes, LAMBDA o : o.r = "None")

Occurrences(seq, x) == Cardinality({k \in DOMAIN seq : seq[k] = x})

RECURSIVE Concat(_)
Concat(seqs) == IF seqs = <<>> THEN <<>> ELSE Head(seqs) \o Concat(Tail(seqs))

\* The tokens json_tokenize is to yield for a parsed object.
TokensWanted(o) == TokensByField(o, IF config_fields = None THEN keys(o)
                                    ELSE config_fields.list)

\* C1: every file json_directory has visited that cannot be opened, cannot be
\* parsed or does not hold an object has a failure marker among the outcomes,
\* and no file-level failure reaches the caller as an exception.
C1_FileFailuresBecomeMarkers ==
    /\ exc # "OSError"
    /\ \A i \in 1..pos :
           tree[i].kind # "object" =>
               \E k \in DOMAIN outcomes :
                   outcomes[k].file = i /\ outcomes[k].r = "ValueError"

\* C2: when the iteration of json_directory has ended, every file of the tree
\* has exactly one outcome: a success carrying the identifier of the file
\* ('' when it has none) for a file holding an object, a failure otherwise.
C2_OneOutcomePerFile ==
    op = "json_directory" /\ caller \in {"returned", "raised"} =>
        /\ Len(outcomes) = Len(tree)
        /\ \A i \in DOMAIN tree :
               /\ outcomes[i].file = i
               /\ tree[i].kind = "object" =>
                      /\ outcomes[i].r = "None"
                      /\ outcomes[i].obj = PyDict(tree[i].obj)
                      /\ outcomes[i].identifier =
                             IF HasKey(tree[i].obj, IDENTIFIER)
                             THEN ValueOf(tree[i].obj, IDENTIFIER)
                             ELSE JStr(<<>>)
               /\ tree[i].kind # "object" => outcomes[i].r = "ValueError"

\* C3: tokenize_directory has emitted one triple (classification,
\* identifier, tokens) for each successful outcome of the walk so far, in
\* walk order, the empty object included, and nothing else.
C3_OneTriplePerSuccess ==
    op = "tokenize_directory" =>
        /\ Len(triples) = Len(SuccessfulOutcomes)
        /\ \A k \in DOMAIN triples :
               triples[k] = <<classification, SuccessfulOutcomes[k].identifier,
                              TokensWanted(SuccessfulOutcomes[k].obj.dict)>>

\* C4: the count of each token is the number of its occurrences in the tokens
\* of json_tokenize summed over every successful outcome of the walk.
C4_TokenCountsSumOccurrences ==
    op = "token_counts" =>
        LET all == Concat([k \in DOMAIN SuccessfulOutcomes |->
                              TokensWanted(SuccessfulOutcomes[k].obj.dict)])
        IN  /\ DOMAIN c = Range(all)
            /\ \A tok \in DOMAIN c : c[tok] = Occurrences(all, tok)

\* C5: the count of each field name is the number of parsed records, among
\* the files visited, whose top-level object has that key, whatever the
\* configured field list; field_counts returns after the last file.
C5_FieldCountsPerRecord ==
    op = "field_counts" =>
        LET having(key) == {i \in 1..pos : /\ tree[i].kind = "object"
                                            /\ HasKey(tree[i].obj, key)}
            seen == UNION {Range(keys(tree[i].obj)) : i \in 1..pos}
        IN  /\ DOMAIN c = seen
            /\ \A key \in seen : c[key] = Cardinality(having(key))
            /\ caller = "returned" => pos = Len(tree)

C5_Witness ==
    /\ op = "field_counts"
    /\ caller = "returned"
    /\ config_fields = FieldList(<<TITLE>>)
    /\ tree = <<FileCatDog, FileEmpty, FileBody>>
    /\ c[IDENTIFIER] = 2
    /\ c[TITLE] = 1
    /\ c[BODY] = 1

\* re.match('^[^:]+:.*$', token)
MatchesTokenPattern(tok) ==
    \E k \in 2..Len(tok) :
        /\ tok[k] = ":"
        /\ \A j \in 1..(k - 1) : tok[j] # ":"
        /\ \A j \in (k + 1)..(Len(tok) - 1) : tok[j] # "\n"

AllTokens == UNION {Range(triples[k][3]) : k \in DOMAIN triples}

\* C9 as claimed: every token of every triple matches ^[^:]+:.*$, whatever
\* the keys of the object.
C9_EveryTokenMatchesPattern ==
    \A tok \in AllTokens : MatchesTokenPattern(tok)

\* C9 as amended: every token of a triple is a field of the field set used,
\* a colon and a word; it matches ^[^:]+:.*$ with that field as its FIELD
\* part whenever the field name is non-empty and holds no colon.
C9_TokensAreFieldColonWord ==
    \A k \in DOMAIN triples :
        \E n \in DOMAIN outcomes :
            /\ outcomes[n].r = "None"
            /\ outcomes[n].identifier = triples[k][2]
            /\ \A tok \in Range(triples[k][3]) :
                   \E f \in FieldSetUsed(outcomes[n].obj.dict, config_fields) :
                       /\ IsPrefix(f \o <<":">>, tok)
                       /\ (f # <<>> /\ ":" \notin Range(f)) =>
                              /\ MatchesTokenPattern(tok)
                              /\ \A j \in 1..Len(f) : tok[j] # ":"

C9_Witness ==
    /\ op = "tokenize_directory"
    /\ config_fields = None
    /\ tree = <<FileOddKeys, FileCatDog>>
    /\ Len(triples) = 2
    /\ triples[1][3] = <<<<":", "c", "a", "t">>,
                         <<"a", ":", "b", ":", "d", "o", "g">>>>
    /\ triples[2][3] = <<IDENTIFIER \o <<":", "a">>,
                         TITLE \o <<":", "c", "a", "t">>,
                         TITLE \o <<":", "d", "o", "g">>>>

\* C10: at most one file handle is open, that of the file json_directory is
\* at; once the consumer has stopped iterating no handle is open and no error
\* was raised.
C10_HandleScopedToOneFile ==
    /\ Cardinality(handles) <= 1
    /\ handles \subseteq {pos}
    /\ caller = "stopped" => handles = {} /\ exc = "none"

====
